---- MODULE Spec2Model ----
(***************************************************************************)
(* Model of src/src/dependencies/goog-table.js: the logical row/column     *)
(* grid GoogTable keeps over a table's TR/TD tree (refresh), and the two   *)
(* structural edits mergeCells and splitCell.                              *)
(*                                                                         *)
(* Logical coordinates are 0-based as in the source; TLA+ sequences are    *)
(* 1-based, so position k of a JavaScript array is element k + 1 here.     *)
(***************************************************************************)
EXTENDS Integers, Sequences, FiniteSets, TLC

\* Bounds of the model.
NumRows == 3
NumCols == 3
MaxMutations == 4
MaxTreeRows == 3
MaxTreeCells == 2
MaxSpanAttr == 2
MaxSpanValue == 3

VARIABLES tree, rows, nextId, mutations, last, prevTree, prevRows, beforeMerge

vars == <<tree, rows, nextId, mutations, last, prevTree, prevRows, beforeMerge>>

Max(a, b) == IF a >= b THEN a ELSE b

(***************************************************************************)
(* The DOM.  A tree is the table element: whether it has a TBODY, and the  *)
(* TBODY's child nodes.  A child of the TBODY has a tagName, an id (its    *)
(* identity) and childNodes; a child of a TR has a tagName, an id, the     *)
(* colSpan and rowSpan attributes (0: the attribute is absent) and its own *)
(* childNodes (the cell's content).  A content node has a nodeType (3 is a *)
(* text node, 1 an element) and its data, a string of character codes     *)
(* (the text of a text node, the markup of an element).                    *)
(***************************************************************************)
TextNode(n) == [nodeType |-> 3, data |-> <<n>>]
ElementNode(n) == [nodeType |-> 1, data |-> <<n>>]
BrElement == [nodeType |-> 1, data |-> <<0>>]

TdNode(id, content) ==
  [tagName |-> "TD", id |-> id, colSpan |-> 0, rowSpan |-> 0, childNodes |-> content]

\* document.createElement('td')
CreateTd(id) == TdNode(id, << >>)

\* The colSpan / rowSpan DOM property of a td: 1 when the attribute is absent.
SpanProperty(attr) == IF attr = 0 THEN 1 ELSE attr

\* The ids of the cell-level nodes of the tree, wherever they are.
NodeIds(t) ==
  UNION {{t.children[r].childNodes[k].id : k \in 1..Len(t.children[r].childNodes)}
         : r \in 1..Len(t.children)}

InTree(t, id) == id \in NodeIds(t)

\* The node with the given id (td.parentNode is non-null exactly when InTree).
NodeOf(t, id) ==
  LET r == CHOOSE r \in 1..Len(t.children) :
             \E k \in 1..Len(t.children[r].childNodes) : t.children[r].childNodes[k].id = id
      k == CHOOSE k \in 1..Len(t.children[r].childNodes) : t.children[r].childNodes[k].id = id
  IN t.children[r].childNodes[k]

\* The tree with node id replaced by nd.
WithNode(t, id, nd) ==
  [t EXCEPT !.children =
     [r \in 1..Len(t.children) |->
        [t.children[r] EXCEPT !.childNodes =
           [k \in 1..Len(t.children[r].childNodes) |->
              IF t.children[r].childNodes[k].id = id THEN nd
              ELSE t.children[r].childNodes[k]]]]]

\* td.parentNode.removeChild(td)
RemoveChild(t, id) ==
  [t EXCEPT !.children =
     [r \in 1..Len(t.children) |->
        [t.children[r] EXCEPT !.childNodes =
           SelectSeq(t.children[r].childNodes, LAMBDA nd : nd.id # id)]]]

\* Position of the child with the given id among a TR's childNodes, 0 if none.
ChildPos(nodes, id) ==
  IF \E k \in 1..Len(nodes) : nodes[k].id = id
  THEN CHOOSE k \in 1..Len(nodes) : nodes[k].id = id
  ELSE 0

InsertAt(s, k, e) == SubSeq(s, 1, k - 1) \o <<e>> \o SubSeq(s, k, Len(s))

(***************************************************************************)
(* GoogTableRow and GoogTableCell.  A Row's element is the id of its TR (0 *)
(* when trs[cellRowNum] was undefined); columns is the sparse array, with  *)
(* NoCell at the indices nothing was assigned to.  A Cell's element is the *)
(* id of its td: refresh builds one Cell object per td, so two Cells of    *)
(* one grid are the same object exactly when their elements are equal.     *)
(***************************************************************************)
NoCell ==
  [element |-> 0, colSpan |-> 0, rowSpan |-> 0,
   startRow |-> 0, startCol |-> 0, endRow |-> 0, endCol |-> 0]

updateCoordinates(c) ==
  [c EXCEPT !.endCol = c.startCol + c.colSpan - 1,
            !.endRow = c.startRow + c.rowSpan - 1]

GoogTableCell(td, startRow, startCol) ==
  updateCoordinates(
    [element |-> td.id,
     colSpan |-> SpanProperty(td.colSpan),
     rowSpan |-> SpanProperty(td.rowSpan),
     startRow |-> startRow, startCol |-> startCol,
     endRow |-> 0, endCol |-> 0])

GoogTableRow(trElement, rowIndex) ==
  [index |-> rowIndex, element |-> trElement, columns |-> << >>]

\* setColSpan that leaves the element's colSpan attribute as it was.
setColSpanCellOnly(p, colSpan) ==
  IF colSpan # p.cell.colSpan
  THEN [cell |-> updateCoordinates([p.cell EXCEPT !.colSpan = colSpan]), td |-> p.td]
  ELSE p

\* A pair of a Cell and its td, as the span setters change both.
setColSpan(p, colSpan) ==
  IF colSpan # p.cell.colSpan
  THEN [cell |-> updateCoordinates([p.cell EXCEPT !.colSpan = colSpan]),
        td |-> [p.td EXCEPT !.colSpan = IF colSpan > 1 THEN colSpan ELSE 0]]
  ELSE p

\* setRowSpan that stores the attribute for every value, 1 included.
setRowSpanStoresOne(p, rowSpan) ==
  IF rowSpan # p.cell.rowSpan
  THEN [cell |-> updateCoordinates([p.cell EXCEPT !.rowSpan = rowSpan]),
        td |-> [p.td EXCEPT !.rowSpan = rowSpan]]
  ELSE p

setRowSpan(p, rowSpan) ==
  IF rowSpan # p.cell.rowSpan
  THEN [cell |-> updateCoordinates([p.cell EXCEPT !.rowSpan = rowSpan]),
        td |-> [p.td EXCEPT !.rowSpan = IF rowSpan > 1 THEN rowSpan ELSE 0]]
  ELSE p

\* columns[j] of a Row: NoCell (undefined) beyond the length or at a hole.
ColumnAt(row, j) ==
  IF j >= 0 /\ j < Len(row.columns) THEN row.columns[j + 1] ELSE NoCell

Occupied(row, j) == ColumnAt(row, j) # NoCell

\* rows[i] is defined.
HasRow(rs, i) == i >= 0 /\ i < Len(rs)

\* rows[i].columns[j], NoCell when either lookup gives undefined.
CellAt(rs, i, j) == IF HasRow(rs, i) THEN ColumnAt(rs[i + 1], j) ELSE NoCell

(***************************************************************************)
(* refresh                                                                 *)
(***************************************************************************)
getChildCellElements(tr) ==
  SelectSeq(tr.childNodes, LAMBDA nd : nd.tagName \in {"TD", "TH"})

\* The TR children of the TBODY.
TrsOf(t) == SelectSeq(t.children, LAMBDA ch : ch.tagName = "TR")

\* trs[n] as a Row's element: the TR's id, 0 when undefined.
TrElement(trs, n) == IF n < Len(trs) THEN trs[n + 1].id ELSE 0

\* while (existingRow && existingRow.columns[columnNum]) columnNum++
RECURSIVE SkipOccupied(_, _)
SkipOccupied(row, columnNum) ==
  IF Occupied(row, columnNum) THEN SkipOccupied(row, columnNum + 1) ELSE columnNum

\* The body of the loop over i: place the cell in row startRow + i.
PlaceInRow(rs, trs, cell, i) ==
  LET cellRowNum == cell.startRow + i
      pushed == IF HasRow(rs, cellRowNum) THEN rs
                ELSE Append(rs, GoogTableRow(TrElement(trs, cellRowNum), cellRowNum))
      at == IF HasRow(rs, cellRowNum) THEN cellRowNum + 1 ELSE Len(pushed)
      cellRow == pushed[at]
      minimumColumnLength == cell.startCol + cell.colSpan
      newLength == Max(Len(cellRow.columns), minimumColumnLength)
      columns == [k \in 1..newLength |->
                    IF k - 1 >= cell.startCol /\ k - 1 < minimumColumnLength THEN cell
                    ELSE IF k <= Len(cellRow.columns) THEN cellRow.columns[k]
                    ELSE NoCell]
  IN [pushed EXCEPT ![at].columns = columns]

RECURSIVE PlaceCell(_, _, _, _)
PlaceCell(rs, trs, cell, i) ==
  IF i >= cell.rowSpan THEN rs
  ELSE PlaceCell(PlaceInRow(rs, trs, cell, i), trs, cell, i + 1)

\* The loop over the tds of physical row rowNum, from cellNum on.  existed:
\* rows[rowNum] was defined when the row's processing began (existingRow).
RECURSIVE RefreshCells(_, _, _, _, _, _, _)
RefreshCells(rs, trs, tds, rowNum, existed, cellNum, columnNum) ==
  IF cellNum > Len(tds) THEN rs
  ELSE LET col == IF existed THEN SkipOccupied(rs[rowNum + 1], columnNum) ELSE columnNum
           cell == GoogTableCell(tds[cellNum], rowNum, col)
       IN RefreshCells(PlaceCell(rs, trs, cell, 0), trs, tds, rowNum, existed,
                       cellNum + 1, col + cell.colSpan)

RECURSIVE RefreshRows(_, _, _)
RefreshRows(rs, trs, rowNum) ==
  IF rowNum >= Len(trs) THEN rs
  ELSE RefreshRows(
         RefreshCells(rs, trs, getChildCellElements(trs[rowNum + 1]), rowNum,
                      HasRow(rs, rowNum), 1, 0),
         trs, rowNum + 1)

refresh(t) == IF ~t.tBody THEN << >> ELSE RefreshRows(<< >>, TrsOf(t), 0)

(***************************************************************************)
(* mergeCells                                                              *)
(***************************************************************************)
\* The positions (i, j) of the rectangle in the order the loops visit them.
RectPositions(startRowIndex, startColIndex, endRowIndex, endColIndex) ==
  LET w == endColIndex - startColIndex + 1
      h == endRowIndex - startRowIndex + 1
  IN [k \in 1..(h * w) |-> <<startRowIndex + ((k - 1) \div w), startColIndex + ((k - 1) % w)>>]

\* The sanity check without its test of the cell's endRow.
ExtendsOutsideNoEndRow(cell, startRowIndex, startColIndex, endRowIndex, endColIndex) ==
  \/ cell.startRow < startRowIndex
  \/ cell.startCol < startColIndex
  \/ cell.endCol > endColIndex

\* The sanity check on one cell of the rectangle.
ExtendsOutside(cell, startRowIndex, startColIndex, endRowIndex, endColIndex) ==
  \/ cell.startRow < startRowIndex
  \/ cell.endRow > endRowIndex
  \/ cell.startCol < startColIndex
  \/ cell.endCol > endColIndex

\* targetTd.lastChild && targetTd.lastChild.nodeType == 3
\* The separator test on the target's first child instead of its last.
FirstChildIsText(td) ==
  Len(td.childNodes) > 0 /\ td.childNodes[1].nodeType = 3

LastChildIsText(td) ==
  Len(td.childNodes) > 0 /\ td.childNodes[Len(td.childNodes)].nodeType = 3

\* The merge loop without its removeChild.
RECURSIVE MergeContentsKeepsTds(_, _, _, _)
MergeContentsKeepsTds(t, cells, targetTd, i) ==
  IF i > Len(cells) THEN t
  ELSE LET td == cells[i].element
       IN IF ~InTree(t, td) \/ td = targetTd
          THEN MergeContentsKeepsTds(t, cells, targetTd, i + 1)
          ELSE LET target == NodeOf(t, targetTd)
                   br == IF LastChildIsText(target) THEN <<BrElement>> ELSE << >>
                   moved == [target EXCEPT
                               !.childNodes = @ \o br \o NodeOf(t, td).childNodes]
                   emptied == [NodeOf(t, td) EXCEPT !.childNodes = << >>]
               IN MergeContentsKeepsTds(
                    WithNode(WithNode(t, targetTd, moved), td, emptied),
                    cells, targetTd, i + 1)

\* The loop that merges the contents of cells[i..] into the target and
\* discards their tds.
RECURSIVE MergeContents(_, _, _, _)
MergeContents(t, cells, targetTd, i) ==
  IF i > Len(cells) THEN t
  ELSE LET td == cells[i].element
       IN IF ~InTree(t, td) \/ td = targetTd
          THEN MergeContents(t, cells, targetTd, i + 1)
          ELSE LET target == NodeOf(t, targetTd)
                   br == IF LastChildIsText(target) THEN <<BrElement>> ELSE << >>
                   moved == [target EXCEPT
                               !.childNodes = @ \o br \o NodeOf(t, td).childNodes]
               IN MergeContents(RemoveChild(WithNode(t, targetTd, moved), td),
                                cells, targetTd, i + 1)

\* mergeCells past its sanity check, the cells gathered: the tree it leaves.
MergeGathered(t, cells, startRowIndex, startColIndex, endRowIndex, endColIndex) ==
  LET targetCell == cells[1]
      targetTd == targetCell.element
      merged == MergeContents(t, cells, targetTd, 2)
      spanned == setRowSpan(
                   setColSpan([cell |-> targetCell, td |-> NodeOf(merged, targetTd)],
                              (endColIndex - startColIndex) + 1),
                   (endRowIndex - startRowIndex) + 1)
  IN WithNode(merged, targetTd, spanned.td)

\* The cells the sanity check looks up, in the order it does.
GatherCells(rs, startRowIndex, startColIndex, endRowIndex, endColIndex) ==
  LET pos == RectPositions(startRowIndex, startColIndex, endRowIndex, endColIndex)
  IN [k \in 1..Len(pos) |-> CellAt(rs, pos[k][1], pos[k][2])]

\* The sanity check stops at cell k: a lookup gave undefined (a TypeError), or
\* the cell extends outside the rectangle (return false).
CheckStops(cells, k, startRowIndex, startColIndex, endRowIndex, endColIndex) ==
  \/ cells[k] = NoCell
  \/ ExtendsOutside(cells[k], startRowIndex, startColIndex, endRowIndex, endColIndex)

\* mergeCells without its closing refresh.
mergeCellsNoRefresh(t, rs, startRowIndex, startColIndex, endRowIndex, endColIndex) ==
  LET unchanged(result) == [tree |-> t, rows |-> rs, result |-> result]
      cells == GatherCells(rs, startRowIndex, startColIndex, endRowIndex, endColIndex)
      stops(k) == CheckStops(cells, k, startRowIndex, startColIndex, endRowIndex, endColIndex)
  IN IF startRowIndex = endRowIndex /\ startColIndex = endColIndex
     THEN unchanged("false")
     ELSE IF \E k \in 1..Len(cells) : stops(k)
     THEN LET first == CHOOSE k \in 1..Len(cells) : stops(k) /\ \A m \in 1..(k - 1) : ~stops(m)
          IN unchanged(IF cells[first] = NoCell THEN "throw" ELSE "false")
     ELSE IF Len(cells) = 0
     THEN unchanged("throw")
     ELSE [tree |-> MergeGathered(t, cells, startRowIndex, startColIndex,
                                  endRowIndex, endColIndex),
           rows |-> rs, result |-> "true"]

\* The outcome of mergeCells on tree t with grid rs: the tree and grid it
\* leaves and its result, "true", "false", or "throw" for a TypeError.
mergeCells(t, rs, startRowIndex, startColIndex, endRowIndex, endColIndex) ==
  LET unchanged(result) == [tree |-> t, rows |-> rs, result |-> result]
      cells == GatherCells(rs, startRowIndex, startColIndex, endRowIndex, endColIndex)
      stops(k) == CheckStops(cells, k, startRowIndex, startColIndex, endRowIndex, endColIndex)
  IN IF startRowIndex = endRowIndex /\ startColIndex = endColIndex
     THEN unchanged("false")
     ELSE IF \E k \in 1..Len(cells) : stops(k)
     THEN LET first == CHOOSE k \in 1..Len(cells) : stops(k) /\ \A m \in 1..(k - 1) : ~stops(m)
          IN unchanged(IF cells[first] = NoCell THEN "throw" ELSE "false")
     ELSE IF Len(cells) = 0
     THEN unchanged("throw")
     ELSE LET done == MergeGathered(t, cells, startRowIndex, startColIndex,
                                    endRowIndex, endColIndex)
          IN [tree |-> done, rows |-> refresh(done), result |-> "true"]

(***************************************************************************)
(* splitCell and insertCellElement                                         *)
(***************************************************************************)
\* element.innerHTML read: the markup of the child nodes as a string of
\* character codes.  A text node gives its text (codes > 0), an element its
\* tag, the negated code of its name (0 for a br).
RECURSIVE innerHTML(_)
innerHTML(nodes) ==
  IF nodes = << >> THEN << >>
  ELSE (IF nodes[1].nodeType = 3 THEN nodes[1].data ELSE <<0 - nodes[1].data[1]>>)
       \o innerHTML(Tail(nodes))

\* element.innerHTML = html: the child nodes the markup parses to, one text
\* node per maximal run of text and one element per tag.
RECURSIVE ParseHTML(_)
ParseHTML(html) ==
  IF html = << >> THEN << >>
  ELSE LET rest == ParseHTML(Tail(html))
           h == Head(html)
       IN IF h <= 0 THEN <<[nodeType |-> 1, data |-> <<0 - h>>]>> \o rest
          ELSE IF rest # << >> /\ rest[1].nodeType = 3
          THEN <<[nodeType |-> 3, data |-> <<h>> \o rest[1].data]>> \o Tail(rest)
          ELSE <<[nodeType |-> 3, data |-> <<h>>]>> \o rest

\* The scan of insertCellElement: the element to insert before, 0 for null.
RECURSIVE NextSiblingElement(_, _, _)
NextSiblingElement(row, rowIndex, i) ==
  LET cell == ColumnAt(row, i)
  IN IF cell = NoCell THEN 0
     ELSE IF cell.startRow = rowIndex THEN cell.element
     ELSE NextSiblingElement(row, rowIndex, i + cell.colSpan)

\* row.element.insertBefore(td, nextSiblingElement) on the TR with id trId.
InsertBefore(t, trId, td, nextSiblingElement) ==
  [t EXCEPT !.children =
     [r \in 1..Len(t.children) |->
        IF t.children[r].id # trId THEN t.children[r]
        ELSE [t.children[r] EXCEPT !.childNodes =
                IF nextSiblingElement = 0 THEN Append(@, td)
                ELSE InsertAt(@, ChildPos(@, nextSiblingElement), td)]]]

\* insertBefore raises NotFoundError when the reference is no child of the TR.
CanInsertBefore(t, trId, nextSiblingElement) ==
  \E r \in 1..Len(t.children) :
     /\ t.children[r].id = trId
     /\ nextSiblingElement # 0 => ChildPos(t.children[r].childNodes, nextSiblingElement) # 0

\* The outcome of insertCellElement: the tree, and whether it threw.
insertCellElement(t, rs, td, rowIndex, colIndex) ==
  IF ~HasRow(rs, rowIndex) THEN [tree |-> t, threw |-> TRUE]
  ELSE LET row == rs[rowIndex + 1]
           nextSiblingElement == NextSiblingElement(row, rowIndex, colIndex)
       IN IF row.element = 0 \/ ~CanInsertBefore(t, row.element, nextSiblingElement)
          THEN [tree |-> t, threw |-> TRUE]
          ELSE [tree |-> InsertBefore(t, row.element, td, nextSiblingElement),
                threw |-> FALSE]

\* The two loops of splitCell from offset number k on (offsets in row-major
\* order, (0, 0) left out): s holds the tree, whether insertCellElement
\* threw, the next fresh id and the ids of the new tds.
RECURSIVE InsertNewTds(_, _, _, _, _, _)
InsertNewTds(s, rs, cell, rowIndex, colIndex, k) ==
  IF s.threw \/ k >= cell.rowSpan * cell.colSpan THEN s
  ELSE LET i == k \div cell.colSpan
           j == k % cell.colSpan
           newTd == CreateTd(s.nextId)
           ins == insertCellElement(s.tree, rs, newTd, rowIndex + i, colIndex + j)
       IN InsertNewTds(
            [tree |-> ins.tree, threw |-> ins.threw, nextId |-> s.nextId + 1,
             newTds |-> IF ins.threw THEN s.newTds ELSE Append(s.newTds, newTd.id)],
            rs, cell, rowIndex, colIndex, k + 1)

\* The outcome of splitCell on tree t with grid rs, ids from id on being
\* fresh: the tree and grid it leaves, the next fresh id, its result ("ok" or
\* "throw" for a TypeError) and the ids of the returned tds.
splitCell(t, rs, id, rowIndex, colIndex) ==
  LET cell == CellAt(rs, rowIndex, colIndex)
  IN IF cell = NoCell
     THEN [tree |-> t, rows |-> rs, nextId |-> id, result |-> "throw", newTds |-> << >>]
     ELSE LET html == innerHTML(NodeOf(t, cell.element).childNodes)
              ins == InsertNewTds(
                       [tree |-> t, threw |-> FALSE, nextId |-> id, newTds |-> << >>],
                       rs, cell, rowIndex, colIndex, 1)
              unspanned == setRowSpan(
                             setColSpan([cell |-> cell, td |-> NodeOf(ins.tree, cell.element)], 1),
                             1)
              reset == WithNode(ins.tree, cell.element, unspanned.td)
          IN IF ins.threw
             THEN [tree |-> ins.tree, rows |-> rs, nextId |-> ins.nextId,
                   result |-> "throw", newTds |-> ins.newTds]
             ELSE IF Len(ins.newTds) = 0
             THEN [tree |-> reset, rows |-> rs, nextId |-> ins.nextId,
                   result |-> "throw", newTds |-> << >>]
             ELSE LET first == ins.newTds[1]
                      filled == WithNode(reset, first,
                                  [NodeOf(reset, first) EXCEPT !.childNodes = ParseHTML(html)])
                      cleared == WithNode(filled, cell.element,
                                   [NodeOf(filled, cell.element) EXCEPT !.childNodes = << >>])
                  IN [tree |-> cleared, rows |-> refresh(cleared), nextId |-> ins.nextId,
                      result |-> "ok", newTds |-> ins.newTds]

(***************************************************************************)
(* The table under edit: a GoogTable constructed on a NumRows x NumCols    *)
(* table of unit cells, then any sequence of mergeCells and splitCell      *)
(* calls with a rectangle, or a position, inside the table.                *)
(***************************************************************************)
\* The content the cell with id n starts with: a text node, an element, or
\* nothing.
InitialContent(n) ==
  IF n % 3 = 1 THEN <<TextNode(n)>>
  ELSE IF n % 3 = 2 THEN <<ElementNode(n)>>
  ELSE << >>

UnitTable ==
  [tBody |-> TRUE,
   children |->
     [r \in 1..NumRows |->
        [tagName |-> "TR", id |-> r,
         childNodes |-> [c \in 1..NumCols |->
                           TdNode((r - 1) * NumCols + c,
                                  InitialContent((r - 1) * NumCols + c))]]]]

NoCall == [op |-> "new", args |-> << >>, result |-> "ok", newTds |-> << >>]

\* The span layout of a grid: at every position the spans and the start of
\* the cell there (zeros where there is none).
Layout(rs) ==
  [i \in 1..Len(rs) |->
     [j \in 1..Len(rs[i].columns) |->
        [rowSpan |-> rs[i].columns[j].rowSpan, colSpan |-> rs[i].columns[j].colSpan,
         startRow |-> rs[i].columns[j].startRow, startCol |-> rs[i].columns[j].startCol]]]

NoMerge == [merged |-> FALSE, args |-> << >>, layout |-> << >>, nodes |-> 0]

\* tree, rows: the table's DOM and the GoogTable's grid over it.  nextId: the
\* id of the next node document.createElement makes.  mutations: the calls so
\* far that changed the tree.  last: the last call, its arguments and its
\* result.  prevTree, prevRows: the tree and the grid the last call began
\* with.  beforeMerge: after a splitCell that followed a successful
\* mergeCells, that merge's rectangle and the layout and node count it began
\* with.
Init ==
  /\ tree = UnitTable
  /\ rows = refresh(tree)
  /\ nextId = NumRows * NumCols + 1
  /\ mutations = 0
  /\ last = NoCall
  /\ prevTree = tree
  /\ prevRows = rows
  /\ beforeMerge = NoMerge

RowIndices == 0..(NumRows - 1)
ColIndices == 0..(NumCols - 1)

\* A call counts as a mutation when it leaves another tree.
Counted(t) == IF t # tree THEN mutations + 1 ELSE mutations

MergeCells(startRowIndex, startColIndex, endRowIndex, endColIndex) ==
  LET out == mergeCells(tree, rows, startRowIndex, startColIndex, endRowIndex, endColIndex)
  IN /\ Counted(out.tree) <= MaxMutations
     /\ tree' = out.tree
     /\ rows' = out.rows
     /\ nextId' = nextId
     /\ mutations' = Counted(out.tree)
     /\ last' = [op |-> "mergeCells",
                 args |-> <<startRowIndex, startColIndex, endRowIndex, endColIndex>>,
                 result |-> out.result, newTds |-> << >>]
     /\ prevTree' = tree
     /\ prevRows' = rows
     /\ beforeMerge' = NoMerge

SplitCell(rowIndex, colIndex) ==
  LET out == splitCell(tree, rows, nextId, rowIndex, colIndex)
  IN /\ Counted(out.tree) <= MaxMutations
     /\ tree' = out.tree
     /\ rows' = out.rows
     /\ nextId' = out.nextId
     /\ mutations' = Counted(out.tree)
     /\ last' = [op |-> "splitCell", args |-> <<rowIndex, colIndex>>,
                 result |-> out.result, newTds |-> out.newTds]
     /\ prevTree' = tree
     /\ prevRows' = rows
     /\ beforeMerge' = IF last.op = "mergeCells" /\ last.result = "true"
                       THEN [merged |-> TRUE, args |-> last.args,
                             layout |-> Layout(prevRows),
                             nodes |-> Cardinality(NodeIds(prevTree))]
                       ELSE NoMerge

\* The callers keep to positions in range (the code looks none up safely):
\* mergeCells is given a rectangle every position of which holds a cell, and
\* splitCell the logical position of a cell, its (startRow, startCol).
IsCellPosition(rowIndex, colIndex) ==
  LET cell == CellAt(rows, rowIndex, colIndex)
  IN cell # NoCell /\ cell.startRow = rowIndex /\ cell.startCol = colIndex

IsOccupiedRectangle(startRowIndex, startColIndex, endRowIndex, endColIndex) ==
  /\ startRowIndex <= endRowIndex
  /\ startColIndex <= endColIndex
  /\ \A i \in startRowIndex..endRowIndex, j \in startColIndex..endColIndex :
       CellAt(rows, i, j) # NoCell

\* A call that throws ends the run: the TypeError leaves the caller.  A call
\* that returns without having changed the tree (a mergeCells that returns
\* false) leaves tree, rows and nextId as they were, so the calls that can
\* follow it are the calls that could have been made in its place, with the
\* same outcomes and the same states after them: they are not made again.
CanCall == last.result # "throw" /\ (last.op = "new" \/ tree # prevTree)

Next ==
  \/ \E startRowIndex \in RowIndices, endRowIndex \in RowIndices,
        startColIndex \in ColIndices, endColIndex \in ColIndices :
       /\ CanCall
       /\ IsOccupiedRectangle(startRowIndex, startColIndex, endRowIndex, endColIndex)
       /\ MergeCells(startRowIndex, startColIndex, endRowIndex, endColIndex)
  \/ \E rowIndex \in RowIndices, colIndex \in ColIndices :
       /\ CanCall
       /\ IsCellPosition(rowIndex, colIndex)
       /\ SplitCell(rowIndex, colIndex)

Spec == Init /\ [][Next]_vars

(***************************************************************************)
(* A GoogTable constructed on any table: the TBODY's children are TRs or   *)
(* other nodes, a TR's children TDs with any span attributes, THs or other *)
(* nodes.  refresh may be called again at any time.                        *)
(***************************************************************************)
SeqsUpTo(S, n) == UNION {[1..m -> S] : m \in 0..n}

\* The span attributes of the tables refresh is run on: absent, or a number
\* from 2 on (refresh reads an attribute of 1 as it reads an absent one).
SpanAttrs == {0} \cup (2..MaxSpanAttr)

CellShapes ==
  [tagName : {"TD"}, colSpan : SpanAttrs, rowSpan : SpanAttrs]
    \cup {[tagName |-> "TH", colSpan |-> 0, rowSpan |-> 0],
          [tagName |-> "#text", colSpan |-> 0, rowSpan |-> 0]}

ChildShapes ==
  [tagName : {"TR"}, cells : SeqsUpTo(CellShapes, MaxTreeCells)]
    \cup {[tagName |-> "#text", cells |-> << >>]}

BuildTree(shape) ==
  [tBody |-> TRUE,
   children |->
     [r \in 1..Len(shape) |->
        [tagName |-> shape[r].tagName, id |-> r,
         childNodes |->
           [k \in 1..Len(shape[r].cells) |->
              [tagName |-> shape[r].cells[k].tagName,
               id |-> (r - 1) * MaxTreeCells + k,
               colSpan |-> shape[r].cells[k].colSpan,
               rowSpan |-> shape[r].cells[k].rowSpan,
               childNodes |-> << >>]]]]]

NoTBody == [tBody |-> FALSE, children |-> << >>]

Trees == {BuildTree(shape) : shape \in SeqsUpTo(ChildShapes, MaxTreeRows)} \cup {NoTBody}

InitTree ==
  /\ tree \in Trees
  /\ rows = refresh(tree)
  /\ nextId = MaxTreeRows * MaxTreeCells + 1
  /\ mutations = 0
  /\ last = NoCall
  /\ prevTree = tree
  /\ prevRows = rows
  /\ beforeMerge = NoMerge

\* refresh without its first statement, rows = this.rows = []: the rows it
\* finds are filled further.
RefreshKeepsRows ==
  /\ rows' = IF ~tree.tBody THEN rows ELSE RefreshRows(rows, TrsOf(tree), 0)
  /\ last' = [op |-> "refresh", args |-> << >>, result |-> "ok", newTds |-> << >>]
  /\ prevTree' = tree
  /\ prevRows' = rows
  /\ UNCHANGED <<tree, nextId, mutations, beforeMerge>>

Refresh ==
  /\ rows' = refresh(tree)
  /\ last' = [op |-> "refresh", args |-> << >>, result |-> "ok", newTds |-> << >>]
  /\ prevTree' = tree
  /\ prevRows' = rows
  /\ UNCHANGED <<tree, nextId, mutations, beforeMerge>>

NextTree == Refresh

SpecTree == InitTree /\ [][NextTree]_vars

\* The positions of a grid, occupied or not.
GridPositions(rs) ==
  UNION {{<<i, j>> : j \in 0..(Len(rs[i + 1].columns) - 1)} : i \in 0..(Len(rs) - 1)}

\* The Cell objects of a grid.
GridCells(rs) == {CellAt(rs, p[1], p[2]) : p \in GridPositions(rs)} \ {NoCell}

(***************************************************************************)
(* The setters of a Cell                                                   *)
(***************************************************************************)
\* A table of one TR with one td whose span attributes are absent or any
\* number up to MaxSpanAttr, 1 included.
CellTrees ==
  {[tBody |-> TRUE,
    children |->
      <<[tagName |-> "TR", id |-> 1,
         childNodes |-> <<[TdNode(2, << >>) EXCEPT !.colSpan = cs, !.rowSpan = rsp]>>]>>] :
     cs \in 0..MaxSpanAttr, rsp \in 0..MaxSpanAttr}

InitCell ==
  /\ tree \in CellTrees
  /\ rows = refresh(tree)
  /\ nextId = 3
  /\ mutations = 0
  /\ last = NoCall
  /\ prevTree = tree
  /\ prevRows = rows
  /\ beforeMerge = NoMerge

\* The grid once the Cell object `from` has become `to`: every position that
\* holds the object shows the change.
WithCell(rs, from, to) ==
  [i \in 1..Len(rs) |->
     [rs[i] EXCEPT !.columns =
        [j \in 1..Len(rs[i].columns) |->
           IF rs[i].columns[j] = from THEN to ELSE rs[i].columns[j]]]]

\* cell.setColSpan(colSpan) on a Cell of the grid.
SetColSpan(cell, colSpan) ==
  /\ cell \in GridCells(rows)
  /\ LET set == setColSpan([cell |-> cell, td |-> NodeOf(tree, cell.element)], colSpan)
     IN /\ tree' = WithNode(tree, cell.element, set.td)
        /\ rows' = WithCell(rows, cell, set.cell)
  /\ last' = [op |-> "setColSpan", args |-> <<cell.element, colSpan>>,
              result |-> "ok", newTds |-> << >>]
  /\ prevTree' = tree
  /\ prevRows' = rows
  /\ UNCHANGED <<nextId, mutations, beforeMerge>>

\* cell.setRowSpan(rowSpan) on a Cell of the grid.
SetRowSpan(cell, rowSpan) ==
  /\ cell \in GridCells(rows)
  /\ LET set == setRowSpan([cell |-> cell, td |-> NodeOf(tree, cell.element)], rowSpan)
     IN /\ tree' = WithNode(tree, cell.element, set.td)
        /\ rows' = WithCell(rows, cell, set.cell)
  /\ last' = [op |-> "setRowSpan", args |-> <<cell.element, rowSpan>>,
              result |-> "ok", newTds |-> << >>]
  /\ prevTree' = tree
  /\ prevRows' = rows
  /\ UNCHANGED <<nextId, mutations, beforeMerge>>

NextCell ==
  \/ \E cell \in GridCells(rows), colSpan \in 1..MaxSpanValue : SetColSpan(cell, colSpan)
  \/ \E cell \in GridCells(rows), rowSpan \in 1..MaxSpanValue : SetRowSpan(cell, rowSpan)

SpecCell == InitCell /\ [][NextCell]_vars

(***************************************************************************)
(* What the last call was, for the properties below.  prevTree and         *)
(* prevRows are the tree and the grid the call began with.                 *)
(***************************************************************************)
MergeCalled == last.op = "mergeCells"
MergeSucceeded == MergeCalled /\ last.result = "true"
SplitCalled == last.op = "splitCell"
SplitReturned == SplitCalled /\ last.result = "ok"

\* The rectangle of the last mergeCells.
ArgStartRow == last.args[1]
ArgStartCol == last.args[2]
ArgEndRow == last.args[3]
ArgEndCol == last.args[4]
InArgRect(i, j) ==
  i >= ArgStartRow /\ i <= ArgEndRow /\ j >= ArgStartCol /\ j <= ArgEndCol
ArgRect == {p \in (ArgStartRow..ArgEndRow) \X (ArgStartCol..ArgEndCol) : TRUE}

\* C1: mergeCells returns false and changes nothing (tree and grid as they
\* were) whenever the rectangle is a single position or some cell occupying a
\* position of the rectangle extends outside the rectangle.
ArgRectIsSingle == ArgStartRow = ArgEndRow /\ ArgStartCol = ArgEndCol
ArgRectCutsACell ==
  \E p \in ArgRect :
    LET c == CellAt(prevRows, p[1], p[2])
    IN /\ c # NoCell
       /\ \/ c.startRow < ArgStartRow
          \/ c.endRow > ArgEndRow
          \/ c.startCol < ArgStartCol
          \/ c.endCol > ArgEndCol

C1_MergeRejectsWithoutChange ==
  MergeCalled /\ (ArgRectIsSingle \/ ArgRectCutsACell)
    => last.result = "false" /\ tree = prevTree /\ rows = prevRows

C1_Witness ==
  /\ MergeCalled /\ ~ArgRectIsSingle /\ ArgRectCutsACell
  /\ last.result = "false" /\ tree = prevTree /\ rows = prevRows

\* C2: after a mergeCells that returned true on a grid in which every position
\* of the rectangle was occupied, every position of the rectangle holds one and
\* the same cell: its node is the node that occupied (startRow, startCol)
\* before, its coordinates are the rectangle's bounds and its spans the
\* rectangle's height and width.
ArgRectWasOccupied == \A p \in ArgRect : CellAt(prevRows, p[1], p[2]) # NoCell

C2_MergedCellFillsRectangle ==
  MergeSucceeded /\ ArgRectWasOccupied
    => \A p \in ArgRect :
         CellAt(rows, p[1], p[2]) =
           [element |-> CellAt(prevRows, ArgStartRow, ArgStartCol).element,
            rowSpan |-> ArgEndRow - ArgStartRow + 1,
            colSpan |-> ArgEndCol - ArgStartCol + 1,
            startRow |-> ArgStartRow, startCol |-> ArgStartCol,
            endRow |-> ArgEndRow, endCol |-> ArgEndCol]

C2_Witness ==
  /\ MergeSucceeded /\ ArgRectWasOccupied
  /\ ArgEndRow > ArgStartRow /\ ArgEndCol > ArgStartCol
  /\ CellAt(rows, ArgEndRow, ArgEndCol).element
       = CellAt(prevRows, ArgStartRow, ArgStartCol).element

\* C3: a successful mergeCells leaves every cell outside the rectangle
\* untouched (the same node with the same spans and content, at the same
\* logical coordinates), and the number of cell nodes of the tree goes down by
\* the number of distinct cells inside the rectangle, less one.
CellsInArgRect == {CellAt(prevRows, p[1], p[2]) : p \in ArgRect} \ {NoCell}

C3_MergeLeavesOutsideUntouched ==
  MergeSucceeded
    => /\ \A p \in GridPositions(prevRows) :
            LET c == CellAt(prevRows, p[1], p[2])
            IN c # NoCell /\ c \notin CellsInArgRect
                 => /\ CellAt(rows, p[1], p[2]) = c
                    /\ InTree(tree, c.element)
                    /\ NodeOf(tree, c.element) = NodeOf(prevTree, c.element)
       /\ Cardinality(NodeIds(tree))
            = Cardinality(NodeIds(prevTree)) - (Cardinality(CellsInArgRect) - 1)

C3_Witness ==
  /\ MergeSucceeded
  /\ Cardinality(CellsInArgRect) = 4
  /\ Cardinality(NodeIds(prevTree)) = 9
  /\ Cardinality(NodeIds(tree)) = 6
  /\ \E p \in GridPositions(prevRows) : ~InArgRect(p[1], p[2])

\* C10: after every mergeCells or splitCell call that returns, the grid is
\* exactly what refresh computes from the tree as it is.
C10_GridIsRefreshedTree ==
  last.result # "throw" => rows = refresh(tree)

C10_Witness ==
  /\ SplitReturned
  /\ tree # prevTree
  /\ rows # prevRows
  /\ rows = refresh(tree)

(***************************************************************************)
(* splitCell                                                               *)
(***************************************************************************)
\* The cell the last splitCell was applied to, and its former rectangle.
SplitArgRow == last.args[1]
SplitArgCol == last.args[2]
SplitTarget == CellAt(prevRows, SplitArgRow, SplitArgCol)
SplitOfSpannedCell == SplitCalled /\ SplitTarget.rowSpan * SplitTarget.colSpan > 1
SplitRect ==
  (SplitArgRow..(SplitArgRow + SplitTarget.rowSpan - 1))
    \X (SplitArgCol..(SplitArgCol + SplitTarget.colSpan - 1))
IsUnitCell(c) == c # NoCell /\ c.rowSpan = 1 /\ c.colSpan = 1

\* C4: splitCell on a cell with rowSpan R and colSpan C, R * C > 1, returns
\* exactly R * C - 1 nodes, all newly created (none in the tree before, none
\* the original node), and afterwards every position of the cell's former
\* rectangle is occupied by a unit cell, a different one at each position.
C4_SplitYieldsUnitCells ==
  SplitOfSpannedCell
    => /\ last.result = "ok"
       /\ Len(last.newTds) = SplitTarget.rowSpan * SplitTarget.colSpan - 1
       /\ \A k \in 1..Len(last.newTds) :
            /\ last.newTds[k] \notin NodeIds(prevTree)
            /\ last.newTds[k] # SplitTarget.element
            /\ \A m \in 1..Len(last.newTds) : m # k => last.newTds[m] # last.newTds[k]
       /\ \A p \in SplitRect : IsUnitCell(CellAt(rows, p[1], p[2]))
       /\ \A p, q \in SplitRect :
            p # q => CellAt(rows, p[1], p[2]).element # CellAt(rows, q[1], q[2]).element

\* C5: after splitCell on a spanned cell, the cell's original content is held
\* by the cell at the top-left position of the former rectangle and every
\* other cell of the rectangle is empty.
C5_SplitKeepsContentTopLeft ==
  SplitOfSpannedCell /\ last.result = "ok"
    => \A p \in SplitRect :
         /\ CellAt(rows, p[1], p[2]) # NoCell
         /\ NodeOf(tree, CellAt(rows, p[1], p[2]).element).childNodes
              = IF p = <<SplitArgRow, SplitArgCol>>
                THEN NodeOf(prevTree, SplitTarget.element).childNodes
                ELSE << >>

\* C6: after splitCell on a spanned cell, the original node occupies the
\* top-left position of the former rectangle and the k-th returned node the
\* k-th remaining position of the rectangle in row-major order.
C6_SplitPlacesNodesInOrder ==
  SplitOfSpannedCell /\ last.result = "ok"
    => /\ CellAt(rows, SplitArgRow, SplitArgCol).element = SplitTarget.element
       /\ \A k \in 1..Len(last.newTds) :
            CellAt(rows, SplitArgRow + (k \div SplitTarget.colSpan),
                         SplitArgCol + (k % SplitTarget.colSpan)).element
              = last.newTds[k]

\* C7: coordinate coverage: every cell that appears in rows occupies every
\* position between its start and its end coordinates.
C7_CoordinateCoverage ==
  \A c \in GridCells(rows) :
    \A i \in c.startRow..c.endRow, j \in c.startCol..c.endCol :
      CellAt(rows, i, j) = c

\* C8: round trip: a successful mergeCells of a rectangle of unit cells and
\* then splitCell on the merged cell give a grid with the number of cell
\* nodes and the span layout the grid had before the merge.
MergedUnitCells ==
  /\ beforeMerge.merged
  /\ \A i \in beforeMerge.args[1]..beforeMerge.args[3],
        j \in beforeMerge.args[2]..beforeMerge.args[4] :
       /\ beforeMerge.layout[i + 1][j + 1].rowSpan = 1
       /\ beforeMerge.layout[i + 1][j + 1].colSpan = 1

SplitOfMergedUnitCells ==
  /\ SplitCalled
  /\ MergedUnitCells
  /\ SplitArgRow = beforeMerge.args[1]
  /\ SplitArgCol = beforeMerge.args[2]

C8_MergeSplitRoundTrip ==
  SplitOfMergedUnitCells
    => /\ last.result = "ok"
       /\ Cardinality(NodeIds(tree)) = beforeMerge.nodes
       /\ Layout(rows) = beforeMerge.layout

\* C9: after refresh on any tree, rows has exactly one entry per physical row
\* node, and rows[k] is bound to the k-th physical row node and has index k.
C9_OneRowPerPhysicalRow ==
  LET trs == TrsOf(tree)
  IN /\ Len(rows) = Len(trs)
     /\ \A k \in 1..Len(rows) : rows[k].element = trs[k].id /\ rows[k].index = k - 1

(***************************************************************************)
(* refresh on any tree                                                     *)
(***************************************************************************)
\* C11: row invariant: in every refreshed grid, the cell x at an occupied
\* index c of a row's columns has x.startCol <= c <= x.endCol and
\* x.startRow <= the row's index <= x.endRow.
C11_RowInvariant ==
  \A r \in 1..Len(rows) :
    \A c \in 0..(Len(rows[r].columns) - 1) :
      LET x == rows[r].columns[c + 1]
      IN x # NoCell
           => /\ x.startCol <= c /\ c <= x.endCol
              /\ x.startRow <= rows[r].index /\ rows[r].index <= x.endRow

\* C12: refresh idempotence: a refresh that follows a refresh with no change
\* of the tree in between leaves the same grid (the same rows and columns,
\* at every position a cell with the same node, spans and coordinates), and
\* refresh does not change the tree.
C12_RefreshIdempotent ==
  last.op = "refresh" => rows = prevRows /\ tree = prevTree

C12_Witness ==
  /\ last.op = "refresh"
  /\ rows = prevRows
  /\ \E c \in GridCells(rows) : c.rowSpan > 1 /\ c.colSpan > 1
  /\ Cardinality(GridCells(rows)) >= 3

(***************************************************************************)
(* splitCell and the rest of the table                                     *)
(***************************************************************************)
\* The cells of the grid before the last splitCell other than the split one.
CellsOutsideSplit == {c \in GridCells(prevRows) : c.element # SplitTarget.element}

\* C13: splitCell leaves every cell outside the split cell's rectangle where
\* it was: after the call the grid holds it with the same node, the same
\* spans and the same startRow and startCol, and its node is still in the
\* tree.
C13_SplitLeavesOutsideUntouched ==
  SplitReturned
    => \A c \in CellsOutsideSplit :
         /\ InTree(tree, c.element)
         /\ \E d \in GridCells(rows) :
              /\ d.element = c.element
              /\ d.rowSpan = c.rowSpan /\ d.colSpan = c.colSpan
              /\ d.startRow = c.startRow /\ d.startCol = c.startCol

\* Two cells whose rectangles share a position.
Overlap(c, d) ==
  /\ c.startRow <= d.endRow /\ d.startRow <= c.endRow
  /\ c.startCol <= d.endCol /\ d.startCol <= c.endCol

\* C14: rectangular tiling: after any sequence of mergeCells and splitCell
\* calls that returned, on a table that began as NumRows x NumCols unit
\* cells, the grid has NumRows rows of exactly NumCols columns, every
\* position is occupied, and no two distinct cells' rectangles overlap.
C14_RectangularTiling ==
  last.result # "throw"
    => /\ Len(rows) = NumRows
       /\ \A r \in 1..Len(rows) : Len(rows[r].columns) = NumCols
       /\ \A p \in GridPositions(rows) : CellAt(rows, p[1], p[2]) # NoCell
       /\ \A c, d \in GridCells(rows) : c # d => ~Overlap(c, d)

\* C15: splitCell on a unit cell completes normally: it returns an empty
\* list of new nodes and leaves the tree and the grid unchanged.
C15_SplitOfUnitCellIsNoOp ==
  SplitCalled /\ IsUnitCell(SplitTarget)
    => /\ last.result = "ok"
       /\ last.newTds = << >>
       /\ tree = prevTree
       /\ rows = prevRows

(***************************************************************************)
(* The coordinates refresh assigns                                         *)
(***************************************************************************)
\* The coordinates C16 describes, computed from the tree alone: the cell
\* nodes of physical row r in their order, each at the first column from
\* the end of the previous one on that no cell of an earlier row covers.
CoversFromAbove(laid, r, col) ==
  \E x \in laid :
    x.startRow < r /\ r <= x.endRow /\ x.startCol <= col /\ col <= x.endCol

RECURSIVE FirstFree(_, _, _)
FirstFree(laid, r, col) ==
  IF CoversFromAbove(laid, r, col) THEN FirstFree(laid, r, col + 1) ELSE col

RECURSIVE LayRow(_, _, _, _, _)
LayRow(laid, tds, r, k, from) ==
  IF k > Len(tds) THEN laid
  ELSE LET col == FirstFree(laid, r, from)
           x == [element |-> tds[k].id, startRow |-> r, startCol |-> col,
                 endRow |-> r + SpanProperty(tds[k].rowSpan) - 1,
                 endCol |-> col + SpanProperty(tds[k].colSpan) - 1]
       IN LayRow(laid \cup {x}, tds, r, k + 1, x.endCol + 1)

RECURSIVE LayRows(_, _, _)
LayRows(laid, trs, r) ==
  IF r >= Len(trs) THEN laid
  ELSE LayRows(LayRow(laid, getChildCellElements(trs[r + 1]), r, 1, 0), trs, r + 1)

ExpectedLayout == LayRows({}, TrsOf(tree), 0)

SpansDoNotOverlap ==
  \A x, y \in ExpectedLayout : x # y => ~Overlap(x, y)

\* C16: for a tree whose spans do not overlap, refresh gives each cell node
\* of physical row r startRow = r and startCol = the smallest column from the
\* end column + 1 of the previous cell node of the row on (0 for the first)
\* that no cell begun in an earlier row occupies in row r; the cells of one
\* physical row so have strictly increasing startCol in their order.
C16_RefreshCoordinates ==
  tree.tBody /\ SpansDoNotOverlap
    => /\ \A x \in ExpectedLayout :
            \E c \in GridCells(rows) :
              c.element = x.element /\ c.startRow = x.startRow /\ c.startCol = x.startCol
       /\ \A r \in 1..Len(TrsOf(tree)) :
            LET tds == getChildCellElements(TrsOf(tree)[r])
            IN \A k \in 1..(Len(tds) - 1) :
                 \A c, d \in GridCells(rows) :
                   c.element = tds[k].id /\ d.element = tds[k + 1].id
                     => c.startCol < d.startCol

(***************************************************************************)
(* The content a merge leaves in its target                                *)
(***************************************************************************)
\* The positions of the rectangle of the last mergeCells in row-major order,
\* numbered from 0, and the cell each held before the call.
ArgRectWidth == ArgEndCol - ArgStartCol + 1
ArgRectSize == ArgRectWidth * (ArgEndRow - ArgStartRow + 1)
ArgRectCell(n) ==
  CellAt(prevRows, ArgStartRow + (n \div ArgRectWidth), ArgStartCol + (n % ArgRectWidth))
FirstOccurrence(n) ==
  \A m \in 0..(n - 1) : ArgRectCell(m).element # ArgRectCell(n).element
MergeTarget == ArgRectCell(0)

\* The content C17 describes: to acc, the target's content so far, the
\* content of the cells at positions n.. is appended, each cell once at its
\* first position, after a separator when acc ends in plain text.
RECURSIVE ContentAppended(_, _)
ContentAppended(acc, n) ==
  IF n >= ArgRectSize THEN acc
  ELSE IF ~FirstOccurrence(n) THEN ContentAppended(acc, n + 1)
  ELSE LET separator == IF acc # << >> /\ acc[Len(acc)].nodeType = 3
                        THEN <<BrElement>> ELSE << >>
       IN ContentAppended(
            acc \o separator \o NodeOf(prevTree, ArgRectCell(n).element).childNodes,
            n + 1)

\* C17: merge content conservation: after a successful mergeCells the
\* target's content is its previous content followed by the content of every
\* other distinct cell of the rectangle, each once, in row-major order of
\* first occurrence, with a separator before an appended cell exactly when
\* the target's content ended in plain text at that moment; and every merged
\* node other than the target is gone from the tree.
C17_MergeConservesContent ==
  MergeSucceeded /\ ArgRectWasOccupied
    => /\ NodeOf(tree, MergeTarget.element).childNodes
            = ContentAppended(NodeOf(prevTree, MergeTarget.element).childNodes, 1)
       /\ \A c \in CellsInArgRect :
            c.element # MergeTarget.element => ~InTree(tree, c.element)

C17_Witness ==
  /\ MergeSucceeded /\ ArgRectWasOccupied
  /\ \E c \in CellsInArgRect :
       c.element # MergeTarget.element /\ c.rowSpan * c.colSpan > 1
  /\ LET content == NodeOf(tree, MergeTarget.element).childNodes
     IN /\ Len(content) >= 4
        /\ \E k \in 1..Len(content) : content[k] = BrElement
        /\ \E k \in 2..Len(content) :
             content[k - 1].nodeType = 1 /\ content[k] # BrElement

(***************************************************************************)
(* The fields of a Cell                                                    *)
(***************************************************************************)
\* The Cell the last setter call was made on, as it was before the call, and
\* the value the call set.
SetterCalled == last.op \in {"setColSpan", "setRowSpan"}
SetCellBefore == CHOOSE c \in GridCells(prevRows) : c.element = last.args[1]
SetValue == last.args[2]

\* C18 as stated: Cell derived-field invariant: after construction and after
\* any setColSpan / setRowSpan calls, a Cell has
\* endRow = startRow + rowSpan - 1 and endCol = startCol + colSpan - 1, its
\* rowSpan and colSpan are the spans read back from its node, and after a
\* span was set to 1 the node holds no span attribute for it.
C18_CellDerivedFields ==
  \A c \in GridCells(rows) :
    LET td == NodeOf(tree, c.element)
    IN /\ c.endRow = c.startRow + c.rowSpan - 1
       /\ c.endCol = c.startCol + c.colSpan - 1
       /\ c.rowSpan = SpanProperty(td.rowSpan)
       /\ c.colSpan = SpanProperty(td.colSpan)
       /\ last.op = "setColSpan" /\ last.args = <<c.element, 1>> => td.colSpan = 0
       /\ last.op = "setRowSpan" /\ last.args = <<c.element, 1>> => td.rowSpan = 0

\* C18 amended: the derived fields and the spans read back are as stated;
\* setting a span to 1 on a Cell whose span was another leaves the node
\* with no span attribute for it, and setting a span to the value the Cell
\* has changes nothing, in the node (an attribute of 1 it came with stays)
\* or in the Cell.
C18_CellDerivedFieldsOnChange ==
  /\ \A c \in GridCells(rows) :
       LET td == NodeOf(tree, c.element)
       IN /\ c.endRow = c.startRow + c.rowSpan - 1
          /\ c.endCol = c.startCol + c.colSpan - 1
          /\ c.rowSpan = SpanProperty(td.rowSpan)
          /\ c.colSpan = SpanProperty(td.colSpan)
  /\ last.op = "setColSpan"
       => IF SetCellBefore.colSpan = SetValue
          THEN tree = prevTree /\ rows = prevRows
          ELSE SetValue = 1 => NodeOf(tree, last.args[1]).colSpan = 0
  /\ last.op = "setRowSpan"
       => IF SetCellBefore.rowSpan = SetValue
          THEN tree = prevTree /\ rows = prevRows
          ELSE SetValue = 1 => NodeOf(tree, last.args[1]).rowSpan = 0

C18_Witness ==
  /\ last.op = "setRowSpan" /\ SetValue = 1
  /\ SetCellBefore.rowSpan > 1
  /\ NodeOf(tree, last.args[1]).rowSpan = 0
  /\ NodeOf(tree, last.args[1]).colSpan = 1
  /\ \E c \in GridCells(rows) : c.element = last.args[1] /\ c.endRow = c.startRow

====
